---- MODULE Spec2Model ----
(***************************************************************************)
(* A model of the analysis scripts of gem5-looppoint-doc:                  *)
(*   example/extract_addr_range_from_mmap.py  parse_and_merge_maps, main   *)
(*   example/k_means_clustering.py            format_bbvs and helpers,     *)
(*                                            find_representative_regions  *)
(*   example/looppoint_analysis.py            the setup, get_data and the  *)
(*                                            exit event handlers          *)
(* Each script is a sequential batch program; it is modelled as a state    *)
(* machine whose steps are the iterations of its loops.  The scripts do    *)
(* not share state, so each has its own specification:                     *)
(*   SpecExtract  the range extractor,                                     *)
(*   SpecBBV      format_bbvs,                                             *)
(*   SpecSelect   find_representative_regions,                             *)
(*   SpecAnalysis the simulation of looppoint_analysis.py,                 *)
(*   SpecPipeline the extractor followed by the setup of the analysis.     *)
(***************************************************************************)
EXTENDS Integers, Sequences, FiniteSets, TLC

VARIABLES
    \* extract_addr_range_from_mmap.py
    maps_file,          \* the lines of the memory-map file (maps_path)
    binary_path,        \* args.binary
    sync_lib_patterns,  \* args.libs
    line_no,            \* number of lines `for line in f` has consumed
    raw,                \* dict path -> list of (start, end), in insertion order
    path_no,            \* number of items `for path, regions in raw.items()` has consumed
    merged,             \* the result dict: keys "loop_range", "excluded"
    output_file,        \* what main wrote to args.output (NoFile: nothing)
    stdout,             \* what main printed
    pc,                 \* position of the extractor
    \* k_means_clustering.py, format_bbvs
    output,             \* the region execution-data document (the argument)
    bb_inst_map,        \* the last region's bb_inst_map, in key order
    bb_id_map,          \* dict address -> id
    bb_inst_array,      \* list of static instruction counts by id
    region_id,          \* the loop variable of line 57
    weighted_bbv,       \* the weighted vector of the region last processed
    bbvs,               \* the rows appended so far
    format_result,      \* what format_bbvs returned or raised
    fpc,                \* position of format_bbvs
    \* k_means_clustering.py, find_representative_regions
    sel_bbvs,           \* the argument bbvs: one embedded vector per region
    labels,             \* the cluster id of each region
    centers,            \* one centroid per cluster
    cluster,            \* the loop variable i of line 99
    representative_regions,
    select_result,      \* what find_representative_regions returned or raised
    spc,                \* position of find_representative_regions
    \* looppoint_analysis.py
    extracted_ranges,   \* json.load of the extraction result document
    loop_range,         \* the AddrRange of line 172
    excluded_ranges,    \* the list of AddrRange of lines 173-179
    start_tracking,     \* args.start_tracking
    if_listening,       \* tracker.if_listening of each core's tracker
    local_bbv,          \* each tracker's local BBV: address -> count
    global_bbv,         \* the manager's global BBV: address -> count
    global_inst_counter,    \* the manager's global instruction counter
    manager_bb_inst_map,    \* the manager's static block map: address -> size
    backward_branch_counter,    \* the manager's counter of each backward branch
    most_recent_branch, \* the manager's most recent backward branch: pc, count
    analysis_region_id, \* the global region_id of line 201
    analysis_output,    \* the text of output_file (args.output_json_file_path)
    workbegin_done,     \* the generator workbegin_handler() has run
    analysis_result,    \* the exception that ended the script, if any
    apc                 \* position of looppoint_analysis.py

extractVars == <<maps_file, binary_path, sync_lib_patterns, line_no, raw,
                 path_no, merged, output_file, stdout, pc>>

bbvVars == <<output, bb_inst_map, bb_id_map, bb_inst_array, region_id,
             weighted_bbv, bbvs, format_result, fpc>>

selectVars == <<sel_bbvs, labels, centers, cluster, representative_regions,
                select_result, spc>>

setupVars == <<extracted_ranges, loop_range, excluded_ranges, start_tracking>>

managerVars == <<if_listening, local_bbv, global_bbv, global_inst_counter,
                 manager_bb_inst_map, backward_branch_counter,
                 most_recent_branch>>

analysisVars == <<setupVars, managerVars, analysis_region_id, analysis_output,
                  workbegin_done, analysis_result, apc>>

vars == <<extractVars, bbvVars, selectVars, analysisVars>>

----------------------------------------------------------------------------
(* Generic helpers for Python values.                                      *)

\* A Python dict with string (or tuple) keys is a function; d[k] = v.
SetKey(d, k, v) == [x \in (DOMAIN d) \cup {k} |-> IF x = k THEN v ELSE d[x]]

EmptyDict == [x \in {} |-> 0]

Max(a, b) == IF a >= b THEN a ELSE b

\* `needle in hay` for Python strings (sequences of characters).
Contains(hay, needle) ==
    \E i \in 0..(Len(hay) - Len(needle)) :
        \A j \in 1..Len(needle) : hay[i + j] = needle[j]

----------------------------------------------------------------------------
(* Hexadecimal text.                                                       *)

HexDigits == <<"0", "1", "2", "3", "4", "5", "6", "7",
               "8", "9", "a", "b", "c", "d", "e", "f">>
HexUpper  == <<"0", "1", "2", "3", "4", "5", "6", "7",
               "8", "9", "A", "B", "C", "D", "E", "F">>

HexWidth == 16

\* the value of a hexadecimal digit, either case
HexTable ==
    [c \in {HexDigits[k] : k \in 1..16} \cup {HexUpper[k] : k \in 1..16} |->
        (CHOOSE k \in 1..16 : HexDigits[k] = c \/ HexUpper[k] = c) - 1]

HexVal(c) == HexTable[c]

\* int(s, 16)
RECURSIVE HexPrefixToInt(_, _)
HexPrefixToInt(s, n) ==
    IF n = 0 THEN 0 ELSE 16 * HexPrefixToInt(s, n - 1) + HexVal(s[n])

HexToInt(s) == HexPrefixToInt(s, Len(s))

\* f"{n:x}": the shortest lowercase hexadecimal text of n >= 0
RECURSIVE ToHex(_)
ToHex(n) ==
    IF n < 16 THEN <<HexDigits[n + 1]>>
    ELSE Append(ToHex(n \div 16), HexDigits[(n % 16) + 1])

\* f"{n:016x}": padded with zeros on the left to at least 16 characters
Hex16(n) ==
    LET s == ToHex(n)
    IN  IF Len(s) >= HexWidth THEN s
        ELSE [i \in 1..(HexWidth - Len(s)) |-> "0"] \o s

----------------------------------------------------------------------------
(* extract_addr_range_from_mmap.py: inputs.                                *)

MaxLines == 2    \* lines in the memory-map file
MaxAddr  == 3    \* addresses are 0..MaxAddr

\* Paths and patterns are sequences of characters.
PathIs        == <<"/", "b", "/", "i", "s">>
PathPthreadIs == <<"/", "b", "/", "p", "t", "h", "r", "e", "a", "d">>
PathLibgomp   == <<"/", "l", "/", "l", "i", "b", "g", "o", "m", "p">>
PathLd        == <<"/", "p", "t", "h", "r", "e", "a", "d", "/", "l", "d">>

\* the default of --libs: ["libgomp", "libomp", "pthread"]
DefaultLibs == << <<"l", "i", "b", "g", "o", "m", "p">>,
                  <<"l", "i", "b", "o", "m", "p">>,
                  <<"p", "t", "h", "r", "e", "a", "d">> >>

PermsExec   == <<"r", "-", "x", "p">>
PermsNoExec == <<"r", "-", "-", "p">>

BinaryPaths == {PathIs, PathPthreadIs}

\* A line of the file: the text "start_s-end_s" when range_ok (anything else
\* otherwise), followed by nfields whitespace-separated fields (perms,
\* offset, dev, inode in a complete line) and the path.
MappingLines(paths) ==
    [range_ok : {TRUE},
     start_s  : {ToHex(a) : a \in 0..(MaxAddr - 1)},
     end_s    : {ToHex(a) : a \in 1..MaxAddr},
     perms    : {PermsExec, PermsNoExec},
     nfields  : {4},
     path     : paths]

WellFormedLines(paths) ==
    {l \in MappingLines(paths) : HexToInt(l.start_s) < HexToInt(l.end_s)}

\* Lines line_re does not match: no "start-end" at the start of the line, or
\* fewer than the four fields perms, offset, dev, inode.
OtherLines ==
    {[range_ok |-> FALSE, start_s |-> ToHex(0), end_s |-> ToHex(1),
      perms |-> PermsExec, nfields |-> 4, path |-> PathLibgomp],
     [range_ok |-> TRUE, start_s |-> ToHex(0), end_s |-> ToHex(1),
      perms |-> PermsExec, nfields |-> 3, path |-> PathLibgomp]}

\* A mapping of a file that is neither the binary nor a library: a pattern
\* occurs in its directory, not in its base name.
UnrelatedLines ==
    {[range_ok |-> TRUE, start_s |-> ToHex(0), end_s |-> ToHex(1),
      perms |-> PermsExec, nfields |-> 4, path |-> PathLd]}

\* Library lines whose range is empty or inverted: line_re accepts any two
\* hexadecimal numbers.
DegenerateLines ==
    {[range_ok |-> TRUE, start_s |-> ToHex(1), end_s |-> ToHex(1),
      perms |-> PermsExec, nfields |-> 4, path |-> PathLibgomp],
     [range_ok |-> TRUE, start_s |-> ToHex(2), end_s |-> ToHex(1),
      perms |-> PermsExec, nfields |-> 4, path |-> PathLibgomp]}

Lines(bin) ==
    WellFormedLines({bin, PathLibgomp}) \cup DegenerateLines
        \cup UnrelatedLines \cup OtherLines

SeqsUpTo(S, n) == UNION {[1..k -> S] : k \in 0..n}

\* args.output: absent, or holding the JSON text of a dict
NoFile == [exists |-> FALSE]
JsonFile(d) == [exists |-> TRUE, json |-> d]

----------------------------------------------------------------------------
(* parse_and_merge_maps.                                                   *)

\* Mutant of LineMatches: a line with too few fields is accepted.
LineMatchesShort(line) == line.range_ok

\* line_re.match(line)
LineMatches(line) == line.range_ok /\ line.nfields >= 4

\* os.path.basename(path): what follows the last "/"
Basename(path) ==
    LET slashes == {i \in 1..Len(path) : path[i] = "/"}
        last    == IF slashes = {} THEN 0
                   ELSE CHOOSE i \in slashes : \A j \in slashes : j <= i
    IN  SubSeq(path, last + 1, Len(path))

\* the condition of lines 41-42
Retained(line, bin, libs) ==
    \/ (line.path = bin /\ Contains(line.perms, <<"x">>))
    \/ \E k \in 1..Len(libs) : Contains(Basename(line.path), libs[k])

\* raw.setdefault(path, []).append((start, end))
RawAppend(r, path, region) ==
    IF \E k \in 1..Len(r) : r[k].path = path
    THEN [k \in 1..Len(r) |->
             IF r[k].path = path
             THEN [r[k] EXCEPT !.regions = Append(@, region)]
             ELSE r[k]]
    ELSE Append(r, [path |-> path, regions |-> <<region>>])

\* regions.sort(key=lambda x: x[0]): a stable sort by start
RECURSIVE InsertByStart(_, _)
InsertByStart(sorted, region) ==
    IF Len(sorted) = 0 THEN <<region>>
    ELSE IF sorted[Len(sorted)][1] <= region[1]
         THEN Append(sorted, region)
         ELSE Append(InsertByStart(SubSeq(sorted, 1, Len(sorted) - 1), region),
                     sorted[Len(sorted)])

RECURSIVE SortByStart(_)
SortByStart(regions) ==
    IF Len(regions) = 0 THEN <<>>
    ELSE InsertByStart(SortByStart(SubSeq(regions, 1, Len(regions) - 1)),
                       regions[Len(regions)])

\* Mutants of MergeStep: touching intervals are not merged; the end of the
\* later interval replaces the running end.
MergeStepNoTouch(merged_list, region) ==
    IF Len(merged_list) = 0 THEN <<region>>
    ELSE LET last == merged_list[Len(merged_list)]
         IN  IF region[1] < last[2]
             THEN [merged_list EXCEPT ![Len(merged_list)] =
                       <<last[1], Max(last[2], region[2])>>]
             ELSE Append(merged_list, region)

MergeStepLastEnd(merged_list, region) ==
    IF Len(merged_list) = 0 THEN <<region>>
    ELSE LET last == merged_list[Len(merged_list)]
         IN  IF region[1] <= last[2]
             THEN [merged_list EXCEPT ![Len(merged_list)] =
                       <<last[1], region[2]>>]
             ELSE Append(merged_list, region)

\* one iteration of `for start, end in regions` (lines 52-61)
MergeStep(merged_list, region) ==
    IF Len(merged_list) = 0 THEN <<region>>
    ELSE LET last == merged_list[Len(merged_list)]
         IN  IF region[1] <= last[2]
             THEN [merged_list EXCEPT ![Len(merged_list)] =
                       <<last[1], Max(last[2], region[2])>>]
             ELSE Append(merged_list, region)

\* the loop of lines 51-61 over the sorted regions
RECURSIVE MergeRegions(_)
MergeRegions(regions) ==
    IF Len(regions) = 0 THEN <<>>
    ELSE MergeStep(MergeRegions(SubSeq(regions, 1, Len(regions) - 1)),
                   regions[Len(regions)])

\* (f"{r[0]:016x}", f"{r[1]:016x}")
HexPair(r) == <<Hex16(r[1]), Hex16(r[2])>>

\* format_bbvs is not running
IdleBBV ==
    /\ output = EmptyDict
    /\ bb_inst_map = <<>>
    /\ bb_id_map = EmptyDict
    /\ bb_inst_array = <<>>
    /\ region_id = 0
    /\ weighted_bbv = <<>>
    /\ bbvs = <<>>
    /\ format_result = [kind |-> "none"]
    /\ fpc = "idle"

\* find_representative_regions is not running
IdleSelect ==
    /\ sel_bbvs = <<>>
    /\ labels = <<>>
    /\ centers = <<>>
    /\ cluster = 0
    /\ representative_regions = EmptyDict
    /\ select_result = [kind |-> "none"]
    /\ spc = "idle"

\* looppoint_analysis.py is not running
IdleAnalysis ==
    /\ extracted_ranges = EmptyDict
    /\ loop_range = <<>>
    /\ excluded_ranges = <<>>
    /\ start_tracking = FALSE
    /\ if_listening = <<>>
    /\ local_bbv = <<>>
    /\ global_bbv = EmptyDict
    /\ global_inst_counter = 0
    /\ manager_bb_inst_map = EmptyDict
    /\ backward_branch_counter = EmptyDict
    /\ most_recent_branch = [pc |-> 0, count |-> 0]
    /\ analysis_region_id = 0
    /\ analysis_output = [exists |-> FALSE]
    /\ workbegin_done = FALSE
    /\ analysis_result = [kind |-> "none"]
    /\ apc = "idle"

\* the extractor is not running
IdleExtract ==
    /\ maps_file = <<>>
    /\ binary_path = <<>>
    /\ sync_lib_patterns = <<>>
    /\ line_no = 0
    /\ raw = <<>>
    /\ path_no = 0
    /\ merged = EmptyDict
    /\ output_file = NoFile
    /\ stdout = <<>>
    /\ pc = "idle"

InitExtract ==
    /\ IdleBBV /\ IdleSelect /\ IdleAnalysis
    /\ binary_path \in BinaryPaths
    /\ sync_lib_patterns = DefaultLibs
    /\ \E n \in 0..MaxLines : maps_file \in [1..n -> Lines(binary_path)]
    /\ line_no = 0
    /\ raw = <<>>
    /\ path_no = 0
    /\ merged = EmptyDict
    /\ output_file = NoFile
    /\ stdout = <<>>
    /\ pc = "read"

\* lines 33-36: a line the pattern does not match is skipped
SkipLine ==
    /\ pc = "read" /\ line_no < Len(maps_file)
    /\ ~LineMatches(maps_file[line_no + 1])
    /\ line_no' = line_no + 1
    /\ UNCHANGED <<maps_file, binary_path, sync_lib_patterns, raw, path_no,
                   merged, output_file, stdout, pc>>
    /\ UNCHANGED <<bbvVars, selectVars, analysisVars>>

\* lines 37-42: a matched line that is neither the binary's executable
\* mapping nor a library's
DropLine ==
    /\ pc = "read" /\ line_no < Len(maps_file)
    /\ LineMatches(maps_file[line_no + 1])
    /\ ~Retained(maps_file[line_no + 1], binary_path, sync_lib_patterns)
    /\ line_no' = line_no + 1
    /\ UNCHANGED <<maps_file, binary_path, sync_lib_patterns, raw, path_no,
                   merged, output_file, stdout, pc>>
    /\ UNCHANGED <<bbvVars, selectVars, analysisVars>>

\* lines 37-45
RetainLine ==
    /\ pc = "read" /\ line_no < Len(maps_file)
    /\ LET line == maps_file[line_no + 1]
       IN  /\ LineMatches(line)
           /\ Retained(line, binary_path, sync_lib_patterns)
           /\ raw' = RawAppend(raw, line.path,
                               <<HexToInt(line.start_s), HexToInt(line.end_s)>>)
    /\ line_no' = line_no + 1
    /\ UNCHANGED <<maps_file, binary_path, sync_lib_patterns, path_no,
                   merged, output_file, stdout, pc>>
    /\ UNCHANGED <<bbvVars, selectVars, analysisVars>>

\* the file is exhausted: line 48
EndOfFile ==
    /\ pc = "read" /\ line_no = Len(maps_file)
    /\ pc' = "merge"
    /\ UNCHANGED <<maps_file, binary_path, sync_lib_patterns, line_no, raw,
                   path_no, merged, output_file, stdout>>
    /\ UNCHANGED <<bbvVars, selectVars, analysisVars>>

\* one iteration of `for path, regions in raw.items()` (lines 49-72)
MergePath ==
    /\ pc = "merge" /\ path_no < Len(raw)
    /\ LET path        == raw[path_no + 1].path
           regions     == SortByStart(raw[path_no + 1].regions)
           merged_list == MergeRegions(regions)
       IN  /\ raw' = [raw EXCEPT ![path_no + 1].regions = regions]
           /\ merged' =
                IF path = binary_path
                THEN SetKey(merged, "loop_range", HexPair(merged_list[1]))
                ELSE LET excluded == IF "excluded" \in DOMAIN merged
                                     THEN merged["excluded"] ELSE EmptyDict
                     IN  SetKey(merged, "excluded",
                                SetKey(excluded, path,
                                       [k \in 1..Len(merged_list) |->
                                            HexPair(merged_list[k])]))
    /\ path_no' = path_no + 1
    /\ UNCHANGED <<maps_file, binary_path, sync_lib_patterns, line_no,
                   output_file, stdout, pc>>
    /\ UNCHANGED <<bbvVars, selectVars, analysisVars>>

\* line 74, back in main at line 109
ReturnMerged ==
    /\ pc = "merge" /\ path_no = Len(raw)
    /\ pc' = "main"
    /\ UNCHANGED <<maps_file, binary_path, sync_lib_patterns, line_no, raw,
                   path_no, merged, output_file, stdout>>
    /\ UNCHANGED <<bbvVars, selectVars, analysisVars>>

\* lines 110-112
MainNothingFound ==
    /\ pc = "main" /\ DOMAIN merged = {}
    /\ stdout' = Append(stdout, "No matching executable regions found.")
    /\ pc' = "done"
    /\ UNCHANGED <<maps_file, binary_path, sync_lib_patterns, line_no, raw,
                   path_no, merged, output_file>>
    /\ UNCHANGED <<bbvVars, selectVars, analysisVars>>

\* lines 114-115
MainWrite ==
    /\ pc = "main" /\ DOMAIN merged # {}
    /\ output_file' = JsonFile(merged)
    /\ pc' = "done"
    /\ UNCHANGED <<maps_file, binary_path, sync_lib_patterns, line_no, raw,
                   path_no, merged, stdout>>
    /\ UNCHANGED <<bbvVars, selectVars, analysisVars>>

NextExtract ==
    \/ SkipLine \/ DropLine \/ RetainLine \/ EndOfFile
    \/ MergePath \/ ReturnMerged \/ MainNothingFound \/ MainWrite

SpecExtract == InitExtract /\ [][NextExtract]_vars

----------------------------------------------------------------------------
(* Properties of the range extractor.                                      *)

\* the integer interval a pair of hexadecimal strings denotes
IntPair(h) == <<HexToInt(h[1]), HexToInt(h[2])>>

\* the addresses start <= a < end of a set of (start, end) pairs
Covered(intervals) ==
    UNION {r[1]..(r[2] - 1) : r \in intervals}

SeqRange(s) == {s[k] : k \in 1..Len(s)}

\* A line has the form line_re describes: "start-end", then at least perms,
\* offset, dev, inode.
HasLineForm(l) == l.range_ok /\ l.nfields >= 4

\* rule (i): the binary's path, executable; rule (ii): a library's name
RuleI(l)  == l.path = binary_path /\ "x" \in SeqRange(l.perms)
RuleII(l) == \E k \in 1..Len(sync_lib_patterns) :
                 Contains(Basename(l.path), sync_lib_patterns[k])

\* the lines of the file that are retained, and their (start, end) for a path
RetainedLines ==
    {l \in SeqRange(maps_file) : HasLineForm(l) /\ (RuleI(l) \/ RuleII(l))}
RetainedOf(path) ==
    {<<HexToInt(l.start_s), HexToInt(l.end_s)>> :
        l \in {x \in SeqRange(maps_file) :
                  x.path = path /\ HasLineForm(x) /\ (RuleI(x) \/ RuleII(x))}}

Excluded == IF "excluded" \in DOMAIN merged THEN merged["excluded"] ELSE EmptyDict

\* C1: every interval list emitted under "excluded" is sorted by start, and
\* each interval ends strictly before the next one starts (no overlap, no
\* touching).
C1_ExcludedSortedApart ==
    \A p \in DOMAIN Excluded :
        LET l == Excluded[p]
        IN  \A k \in 1..(Len(l) - 1) :
                /\ IntPair(l[k])[1] <= IntPair(l[k + 1])[1]
                /\ IntPair(l[k])[2] < IntPair(l[k + 1])[1]

\* a written result in which a library keeps two separate intervals
C1_Witness ==
    /\ pc = "done" /\ output_file = JsonFile(merged)
    /\ \E p \in DOMAIN Excluded : Len(Excluded[p]) = 2

\* C2: the addresses covered by the intervals emitted for an excluded path
\* are exactly the addresses covered by the retained mappings of that path.
C2_ExcludedSameCover ==
    \A p \in DOMAIN Excluded :
        Covered({IntPair(h) : h \in SeqRange(Excluded[p])}) = Covered(RetainedOf(p))

\* a library whose later-starting mapping lies inside an earlier one
C2_Witness ==
    /\ pc = "done"
    /\ \E p \in DOMAIN Excluded :
         \E r1, r2 \in RetainedOf(p) :
             r1[1] < r2[1] /\ r2[2] < r1[2] /\ Len(Excluded[p]) = 1

\* C3: when the binary has a retained mapping, every address of every
\* retained mapping of the binary lies inside loop_range.
C3_LoopRangeCoversBinary ==
    (pc = "done" /\ RetainedOf(binary_path) # {}) =>
        /\ "loop_range" \in DOMAIN merged
        /\ Covered(RetainedOf(binary_path)) \subseteq
               Covered({IntPair(merged["loop_range"])})

\* C4: loop_range covers only executable mappings of the binary, "excluded"
\* holds only paths whose base name contains a pattern, and loop_range is
\* absent when no line satisfies rule (i).
C4_OnlyExecutableAndLibraries ==
    pc = "done" =>
        /\ "loop_range" \in DOMAIN merged =>
              Covered({IntPair(merged["loop_range"])}) \subseteq
                  Covered({<<HexToInt(l.start_s), HexToInt(l.end_s)>> :
                              l \in {x \in SeqRange(maps_file) :
                                        HasLineForm(x) /\ RuleI(x)}})
        /\ \A p \in DOMAIN Excluded :
              \E k \in 1..Len(sync_lib_patterns) :
                  Contains(Basename(p), sync_lib_patterns[k])
        /\ (\A l \in SeqRange(maps_file) : ~(HasLineForm(l) /\ RuleI(l))) =>
              "loop_range" \notin DOMAIN merged

\* C5: the result is empty exactly when no line is retained; main then
\* reports that nothing was found and writes no file, and writes every
\* non-empty result (also one without loop_range); a line that does not have
\* the line form contributes nothing.
C5_EmptyExactlyWhenNothingRetained ==
    /\ \A k \in 1..Len(raw) : \A r \in SeqRange(raw[k].regions) :
          \E i \in 1..line_no :
              /\ HasLineForm(maps_file[i])
              /\ maps_file[i].path = raw[k].path
              /\ r = <<HexToInt(maps_file[i].start_s), HexToInt(maps_file[i].end_s)>>
    /\ pc \in {"main", "done"} => (DOMAIN merged = {} <=> RetainedLines = {})
    /\ pc = "done" =>
          IF DOMAIN merged = {}
          THEN /\ output_file = NoFile
               /\ stdout = <<"No matching executable regions found.">>
          ELSE /\ output_file = JsonFile(merged)
               /\ stdout = <<>>

\* a file with a line that lacks the line form, whose result has excluded
\* entries and no loop_range, and is written
C5_Witness ==
    /\ pc = "done"
    /\ \E l \in SeqRange(maps_file) : ~HasLineForm(l)
    /\ DOMAIN merged = {"excluded"}
    /\ output_file = JsonFile(merged)

----------------------------------------------------------------------------
(* k_means_clustering.py, format_bbvs: inputs.                             *)

MaxRegions == 2    \* regions in the document

\* Block addresses are the hexadecimal strings to_hex_map writes; the values
\* are those of the specification's example ({A:10, B:20}, counts {A:3, B:1},
\* length 100) and a region length of 0.
BlockAddrs    == {"0x400", "0x404"}
StaticCounts  == {10, 20}
DynamicCounts == {1, 3}
RegionLengths == {0, 100}

\* str(n) for an integer
DecDigits == <<"0", "1", "2", "3", "4", "5", "6", "7", "8", "9">>

RECURSIVE DecStr(_)
DecStr(n) ==
    IF n < 10 THEN <<DecDigits[n + 1]>>
    ELSE Append(DecStr(n \div 10), DecDigits[(n % 10) + 1])

Str(n) == IF n < 0 THEN <<"-">> \o DecStr(0 - n) ELSE DecStr(n)

\* A JSON object with insertion order: a sequence of <<key, value>> pairs
\* with distinct keys.
Keys(d) == {d[k][1] : k \in 1..Len(d)}
OrderedDicts(K, V) ==
    {d \in SeqsUpTo(K \X V, Cardinality(K)) :
        \A a, b \in 1..Len(d) : d[a][1] = d[b][1] => a = b}

\* A JSON object whose order does not matter: a function on its keys.
Dicts(K, V) == UNION {[S -> V] : S \in SUBSET K}

\* The documents: keys "0".."R-1"; every region has global_bbv and
\* global_length, and the last one may have bb_inst_map.
PlainRegions == [global_bbv : Dicts(BlockAddrs, DynamicCounts),
                 global_length : RegionLengths]
FinalRegions ==
    PlainRegions \cup
    [global_bbv : Dicts(BlockAddrs, DynamicCounts),
     global_length : RegionLengths,
     bb_inst_map : OrderedDicts(BlockAddrs, StaticCounts)]

\* the document of R >= 1 regions: plain[r] under str(r) for r < R - 1, last
\* under str(R - 1)
Document(R, plain, last) ==
    [key \in {Str(r) : r \in 0..(R - 1)} |->
        IF key = Str(R - 1) THEN last
        ELSE plain[CHOOSE r \in 0..(R - 2) : Str(r) = key]]

----------------------------------------------------------------------------
(* format_bbvs and its helpers.                                            *)

RECURSIVE Gcd(_, _)
Gcd(a, b) == IF b = 0 THEN a ELSE Gcd(b, a % b)

\* x / y for y # 0: the quotient as a fraction in lowest terms
Divide(x, y) == <<x \div Gcd(x, y), y \div Gcd(x, y)>>

\* form_bb_id_map: ids in the order of the keys
form_bb_id_map(inst_map) ==
    [addr \in Keys(inst_map) |->
        (CHOOSE k \in 1..Len(inst_map) : inst_map[k][1] = addr) - 1]

\* from_bb_id_inst_array; the list holds id i at position i + 1
from_bb_id_inst_array(id_map, inst_map) ==
    [p \in 1..Cardinality(DOMAIN id_map) |->
        LET hits == {k \in 1..Len(inst_map) : id_map[inst_map[k][1]] = p - 1}
        IN  IF hits = {} THEN 0 ELSE inst_map[CHOOSE k \in hits : TRUE][2]]

\* the outcome of a call: an exception raised, or a value returned
Raise(e)   == [kind |-> "raise", error |-> e]
Return(v)  == [kind |-> "return", value |-> v]
NoOutcome  == [kind |-> "none"]

\* Mutants of form_weighted_bbv_array: the raw count is stored unweighted;
\* an address without id is skipped.
form_weighted_bbv_array_raw(raw_bbv, id_map, inst_array) ==
    IF \E a \in DOMAIN raw_bbv : a \notin DOMAIN id_map
    THEN Raise("KeyError")
    ELSE Return([p \in 1..Cardinality(DOMAIN id_map) |->
             LET hits == {a \in DOMAIN raw_bbv : id_map[a] = p - 1}
             IN  IF hits = {} THEN 0 ELSE raw_bbv[CHOOSE a \in hits : TRUE]])

form_weighted_bbv_array_skip(raw_bbv, id_map, inst_array) ==
    Return([p \in 1..Cardinality(DOMAIN id_map) |->
        LET hits == {a \in (DOMAIN raw_bbv) \cap (DOMAIN id_map) : id_map[a] = p - 1}
        IN  IF hits = {} THEN 0
            ELSE raw_bbv[CHOOSE a \in hits : TRUE] * inst_array[p]])

\* form_weighted_bbv_array (lines 38-42): KeyError when raw_bbv has an
\* address that is no key of the id map (line 40), the list otherwise
form_weighted_bbv_array(raw_bbv, id_map, inst_array) ==
    IF \E a \in DOMAIN raw_bbv : a \notin DOMAIN id_map
    THEN Raise("KeyError")
    ELSE Return([p \in 1..Cardinality(DOMAIN id_map) |->
             LET hits == {a \in DOMAIN raw_bbv : id_map[a] = p - 1}
             IN  IF hits = {} THEN 0
                 ELSE raw_bbv[CHOOSE a \in hits : TRUE] * inst_array[p]])

InitBBV ==
    /\ IdleExtract /\ IdleSelect /\ IdleAnalysis
    /\ \/ output = EmptyDict
       \/ \E R \in 1..MaxRegions :
             \E plain \in [0..(R - 2) -> PlainRegions], last \in FinalRegions :
                 output = Document(R, plain, last)
    /\ bb_inst_map = <<>>
    /\ bb_id_map = EmptyDict
    /\ bb_inst_array = <<>>
    /\ region_id = 0
    /\ weighted_bbv = <<>>
    /\ bbvs = <<>>
    /\ format_result = NoOutcome
    /\ fpc = "begin"

final_region_key == Str(Cardinality(DOMAIN output) - 1)

\* lines 50-51 raise KeyError: no entry for the key, or no bb_inst_map in it
FormatBeginKeyError ==
    /\ fpc = "begin"
    /\ ~(/\ final_region_key \in DOMAIN output
         /\ "bb_inst_map" \in DOMAIN output[final_region_key])
    /\ format_result' = Raise("KeyError")
    /\ fpc' = "done"
    /\ UNCHANGED <<output, bb_inst_map, bb_id_map, bb_inst_array, region_id,
                   weighted_bbv, bbvs>>
    /\ UNCHANGED <<extractVars, selectVars, analysisVars>>

\* lines 50-56
FormatBegin ==
    /\ fpc = "begin"
    /\ final_region_key \in DOMAIN output
    /\ "bb_inst_map" \in DOMAIN output[final_region_key]
    /\ bb_inst_map' = output[final_region_key]["bb_inst_map"]
    /\ bb_id_map' = form_bb_id_map(bb_inst_map')
    /\ bb_inst_array' = from_bb_id_inst_array(bb_id_map', bb_inst_map')
    /\ bbvs' = <<>>
    /\ region_id' = 0
    /\ fpc' = "loop"
    /\ UNCHANGED <<output, weighted_bbv, format_result>>
    /\ UNCHANGED <<extractVars, selectVars, analysisVars>>

\* lines 58-62 raise KeyError in form_weighted_bbv_array
FormatRegionKeyError ==
    /\ fpc = "loop" /\ region_id < Cardinality(DOMAIN output)
    /\ LET region_data == output[Str(region_id)]
       IN  form_weighted_bbv_array(region_data["global_bbv"], bb_id_map,
                                   bb_inst_array).kind = "raise"
    /\ format_result' = Raise("KeyError")
    /\ fpc' = "done"
    /\ UNCHANGED <<output, bb_inst_map, bb_id_map, bb_inst_array, region_id,
                   weighted_bbv, bbvs>>
    /\ UNCHANGED <<extractVars, selectVars, analysisVars>>

\* line 63 raises ZeroDivisionError: the first x / region_length
FormatRegionZeroDivision ==
    /\ fpc = "loop" /\ region_id < Cardinality(DOMAIN output)
    /\ LET region_data == output[Str(region_id)]
           call        == form_weighted_bbv_array(region_data["global_bbv"],
                                                  bb_id_map, bb_inst_array)
       IN  /\ call.kind = "return"
           /\ Len(call.value) > 0
           /\ region_data["global_length"] = 0
           /\ weighted_bbv' = call.value
    /\ format_result' = Raise("ZeroDivisionError")
    /\ fpc' = "done"
    /\ UNCHANGED <<output, bb_inst_map, bb_id_map, bb_inst_array, region_id,
                   bbvs>>
    /\ UNCHANGED <<extractVars, selectVars, analysisVars>>

\* lines 58-64: one row appended
FormatRegion ==
    /\ fpc = "loop" /\ region_id < Cardinality(DOMAIN output)
    /\ LET region_data   == output[Str(region_id)]
           region_length == region_data["global_length"]
           call          == form_weighted_bbv_array(region_data["global_bbv"],
                                                    bb_id_map, bb_inst_array)
       IN  /\ call.kind = "return"
           /\ ~(Len(call.value) > 0 /\ region_length = 0)
           /\ weighted_bbv' = call.value
           /\ bbvs' = Append(bbvs, [p \in 1..Len(call.value) |->
                                       Divide(call.value[p], region_length)])
    /\ region_id' = region_id + 1
    /\ UNCHANGED <<output, bb_inst_map, bb_id_map, bb_inst_array,
                   format_result, fpc>>
    /\ UNCHANGED <<extractVars, selectVars, analysisVars>>

\* line 66
FormatReturn ==
    /\ fpc = "loop" /\ region_id = Cardinality(DOMAIN output)
    /\ format_result' = Return(bbvs)
    /\ fpc' = "done"
    /\ UNCHANGED <<output, bb_inst_map, bb_id_map, bb_inst_array, region_id,
                   weighted_bbv, bbvs>>
    /\ UNCHANGED <<extractVars, selectVars, analysisVars>>

NextBBV ==
    \/ FormatBeginKeyError \/ FormatBegin \/ FormatRegionKeyError
    \/ FormatRegionZeroDivision \/ FormatRegion \/ FormatReturn

SpecBBV == InitBBV /\ [][NextBBV]_vars

----------------------------------------------------------------------------
(* Properties of format_bbvs.                                              *)

RegionCount == Cardinality(DOMAIN output)

\* the last region carries bb_inst_map
HasCanonical ==
    /\ Str(RegionCount - 1) \in DOMAIN output
    /\ "bb_inst_map" \in DOMAIN output[Str(RegionCount - 1)]

\* the canonical block map: <<address, static count>> pairs in key order
Canonical == IF HasCanonical THEN output[Str(RegionCount - 1)]["bb_inst_map"]
             ELSE <<>>

\* the weighted value of the block with id p - 1 in the region with index r
ExpectedWeight(r, p) ==
    LET raw_bbv == output[Str(r)]["global_bbv"]
        addr    == Canonical[p][1]
    IN  IF addr \in DOMAIN raw_bbv THEN raw_bbv[addr] * Canonical[p][2] ELSE 0

\* the region with index r counts an address the canonical map does not have
HasUnknownAddr(r) ==
    \E a \in DOMAIN output[Str(r)]["global_bbv"] : a \notin Keys(Canonical)

\* C6: what format_bbvs returns has one row per region, row r built from the
\* entry keyed str(r); each row has one value per block of the last region's
\* bb_inst_map; the value of a block is dynamic count * static count (0 for
\* a block the region does not count) divided by the region's global_length.
C6_RowsAreNormalizedWeights ==
    /\ (fpc = "loop" /\ region_id > 0) =>
          /\ Len(weighted_bbv) = Len(Canonical)
          /\ \A p \in 1..Len(Canonical) :
                weighted_bbv[p] = ExpectedWeight(region_id - 1, p)
    /\ format_result.kind = "return" =>
          /\ Len(format_result.value) = RegionCount
          /\ \A r \in 0..(RegionCount - 1) :
                LET row == format_result.value[r + 1]
                IN  /\ Len(row) = Len(Canonical)
                    /\ \A p \in 1..Len(Canonical) :
                          /\ row[p][2] # 0
                          /\ row[p][1] * output[Str(r)]["global_length"] =
                                 ExpectedWeight(r, p) * row[p][2]

\* the example: static counts 10 and 20, dynamic counts 3 and 1, length 100
\* give the weights 30, 20 and the row 30/100, 20/100, after a different row
C6_Witness ==
    /\ format_result.kind = "return"
    /\ Len(format_result.value) = 2
    /\ weighted_bbv = <<30, 20>>
    /\ format_result.value[2] = <<Divide(30, 100), Divide(20, 100)>>
    /\ format_result.value[1] # format_result.value[2]

\* C7: when some region's global_length is 0, format_bbvs ends with an
\* error and returns no matrix.
C7_ZeroLengthFails ==
    (fpc = "done" /\ \E key \in DOMAIN output : output[key]["global_length"] = 0)
        => format_result.kind = "raise"

\* C8: when some region counts an address the canonical map does not have,
\* format_bbvs ends with an error and returns nothing; it is the KeyError of
\* the lookup when the loop has reached such a region; a canonical block a
\* region does not count is no error.
C8_UnknownAddressFails ==
    fpc = "done" =>
        /\ (\E r \in 0..(RegionCount - 1) : HasUnknownAddr(r)) =>
              format_result.kind = "raise"
        /\ (HasCanonical /\ format_result.kind = "raise"
               /\ HasUnknownAddr(region_id)) =>
              format_result = Raise("KeyError")
        /\ (/\ HasCanonical
            /\ \A r \in 0..(RegionCount - 1) :
                  /\ ~HasUnknownAddr(r)
                  /\ output[Str(r)]["global_length"] # 0) =>
              format_result.kind = "return"

\* the second region counts an unknown address: KeyError after a row had
\* been appended, and nothing is returned
C8_Witness ==
    /\ fpc = "done" /\ HasCanonical
    /\ RegionCount = 2 /\ region_id = 1 /\ Len(bbvs) = 1
    /\ HasUnknownAddr(1)
    /\ format_result = Raise("KeyError")

----------------------------------------------------------------------------
(* k_means_clustering.py, find_representative_regions.                     *)

MaxPoints   == 3    \* regions (rows of bbvs)
MaxClusters == 2    \* rows of centers
MaxCoord    == 1    \* coordinates are 0..MaxCoord
Dim         == 2    \* columns of bbvs and centers

Vectors == [1..Dim -> 0..MaxCoord]

\* np.linalg.norm(u - v) is the root of this sum of squares; the root is
\* monotone, so the sums order the rows as the norms do.
RECURSIVE SumSquares(_, _, _)
SumSquares(u, v, n) ==
    IF n = 0 THEN 0
    ELSE SumSquares(u, v, n - 1) + (u[n] - v[n]) * (u[n] - v[n])

Distance2(u, v) == SumSquares(u, v, Len(u))

\* np.where(labels == i)[0]: the indices r (from 0) with labels[r] = i, ascending
RECURSIVE WhereEqual(_, _, _)
WhereEqual(lbls, i, n) ==
    IF n = 0 THEN <<>>
    ELSE IF lbls[n] = i THEN Append(WhereEqual(lbls, i, n - 1), n - 1)
         ELSE WhereEqual(lbls, i, n - 1)

\* np.argmin(distances): the first position (from 0) of the least value
ArgMin(distances) ==
    (CHOOSE k \in 1..Len(distances) :
        /\ \A j \in 1..Len(distances) : distances[k] <= distances[j]
        /\ \A j \in 1..(k - 1) : distances[j] > distances[k]) - 1

InitSelect ==
    /\ IdleExtract /\ IdleBBV /\ IdleAnalysis
    /\ \E R \in 1..MaxPoints, c \in 1..MaxClusters :
          /\ sel_bbvs \in [1..R -> Vectors]
          /\ labels \in [1..R -> 0..(c - 1)]
          /\ centers \in [1..c -> Vectors]
    /\ cluster = 0
    /\ representative_regions = EmptyDict
    /\ select_result = NoOutcome
    /\ spc = "loop"

\* lines 100-105 for a cluster with members; row r of an array is element
\* r + 1 of the sequence
SelectCluster ==
    /\ spc = "loop" /\ cluster < Len(centers)
    /\ LET cluster_indices == WhereEqual(labels, cluster, Len(labels))
           distances == [k \in 1..Len(cluster_indices) |->
                            Distance2(sel_bbvs[cluster_indices[k] + 1],
                                      centers[cluster + 1])]
       IN  /\ Len(distances) > 0
           /\ LET closest_index == cluster_indices[ArgMin(distances) + 1]
                  entry == IF cluster \in DOMAIN representative_regions
                           THEN representative_regions[cluster] ELSE <<>>
              IN  representative_regions' =
                      SetKey(representative_regions, cluster,
                             Append(entry, closest_index))
    /\ cluster' = cluster + 1
    /\ UNCHANGED <<sel_bbvs, labels, centers, select_result, spc>>
    /\ UNCHANGED <<extractVars, bbvVars, analysisVars>>

\* lines 100-102 for a cluster without members: np.argmin of an empty array
\* raises ValueError
SelectEmptyCluster ==
    /\ spc = "loop" /\ cluster < Len(centers)
    /\ Len(WhereEqual(labels, cluster, Len(labels))) = 0
    /\ select_result' = Raise("ValueError")
    /\ spc' = "done"
    /\ UNCHANGED <<sel_bbvs, labels, centers, cluster, representative_regions>>
    /\ UNCHANGED <<extractVars, bbvVars, analysisVars>>

\* line 106
SelectReturn ==
    /\ spc = "loop" /\ cluster = Len(centers)
    /\ select_result' = Return(representative_regions)
    /\ spc' = "done"
    /\ UNCHANGED <<sel_bbvs, labels, centers, cluster, representative_regions>>
    /\ UNCHANGED <<extractVars, bbvVars, analysisVars>>

NextSelect == SelectCluster \/ SelectEmptyCluster \/ SelectReturn

SpecSelect == InitSelect /\ [][NextSelect]_vars

\* any one of the three programs
(* looppoint_analysis.py: JSON text and Python dicts.                      *)

MaxSimpoints == 2    \* SIMPOINT_BEGIN exit events in a run
MaxBlocks    == 1    \* basic blocks executed in one region
MaxBranches  == 1    \* backward branches taken in a run

NumCores == 2
Cores    == 1..NumCores

\* the basic blocks of the workload and their static instruction counts, and
\* the backward branches
BlockPCs  == {1024, 1028}
BranchPCs == {1032}
InstCount == [a \in BlockPCs |-> IF a = 1024 THEN 10 ELSE 20]

\* A key of a Python dict: a str or an int; 0 and "0" are different keys.
StrKey(s) == [type |-> "str", str |-> s, int |-> 0]
IntKey(n) == [type |-> "int", str |-> <<>>, int |-> n]

\* d[key] = value on a dict kept as the sequence of its items: an existing
\* key keeps its place, a new one goes last.
DictSetItem(d, key, value) ==
    IF \E k \in 1..Len(d) : d[k][1] = key
    THEN [k \in 1..Len(d) |-> IF d[k][1] = key THEN <<key, value>> ELSE d[k]]
    ELSE Append(d, <<key, value>>)

\* json.load of an object, given as the sequence of its members
\* <<name, value>>: every name becomes a str key; of two members with the
\* same name the later value stays.
RECURSIVE json_load(_)
json_load(members) ==
    IF Len(members) = 0 THEN <<>>
    ELSE LET m == members[Len(members)]
         IN  DictSetItem(json_load(SubSeq(members, 1, Len(members) - 1)),
                         StrKey(m[1]), m[2])

\* json.dump of a dict: one member per item, in order; an int key is
\* written as its decimal text.
json_dump(data) ==
    [k \in 1..Len(data) |->
        <<IF data[k][1].type = "int" THEN Str(data[k][1].int)
          ELSE data[k][1].str,
          data[k][2]>>]

\* hex(n) for n >= 0
hex(n) == <<"0", "x">> \o ToHex(n)

\* to_hex_map (lines 203-207)
to_hex_map(the_map) ==
    [s \in {hex(key) : key \in DOMAIN the_map} |->
        the_map[CHOOSE key \in DOMAIN the_map : hex(key) = s]]

AddrRange(start, end) == [start |-> start, end |-> end]

----------------------------------------------------------------------------
(* looppoint_analysis.py: the setup, lines 83-195.                         *)

\* The ranges of extracted_ranges["excluded"], one path after the other
\* (lines 175-179).
RECURSIVE ExcludedRanges(_)
ExcludedRanges(excluded) ==
    IF DOMAIN excluded = {} THEN <<>>
    ELSE LET lib_path == CHOOSE p \in DOMAIN excluded : TRUE
             rest     == [p \in (DOMAIN excluded) \ {lib_path} |-> excluded[p]]
         IN  [k \in 1..Len(excluded[lib_path]) |->
                 AddrRange(HexToInt(excluded[lib_path][k][1]),
                           HexToInt(excluded[lib_path][k][2]))]
             \o ExcludedRanges(rest)

\* the manager and the trackers as lines 181-195 leave them
ManagerReady(tracking) ==
    /\ if_listening = [c \in Cores |-> tracking]
    /\ local_bbv = [c \in Cores |-> EmptyDict]
    /\ global_bbv = EmptyDict
    /\ global_inst_counter = 0
    /\ manager_bb_inst_map = EmptyDict
    /\ backward_branch_counter = EmptyDict
    /\ most_recent_branch = [pc |-> 0, count |-> 0]

\* lines 83-88: the extraction result document is not there
RangesFileMissing ==
    /\ apc = "idle" /\ pc = "done"
    /\ ~output_file.exists
    /\ analysis_result' = Raise("FileNotFoundError")
    /\ apc' = "failed"
    /\ UNCHANGED <<setupVars, managerVars, analysis_region_id,
                   analysis_output, workbegin_done>>
    /\ UNCHANGED <<extractVars, bbvVars, selectVars>>

\* lines 83-99 and 168-169: the arguments, the empty output document, and
\* json.load of the extraction result document
LoadRanges ==
    /\ apc = "idle" /\ pc = "done"
    /\ output_file.exists
    /\ start_tracking' \in BOOLEAN
    /\ analysis_output' = JsonFile(json_dump(<<>>))
    /\ extracted_ranges' = output_file.json
    /\ apc' = "loop_range"
    /\ UNCHANGED <<loop_range, excluded_ranges, managerVars,
                   analysis_region_id, workbegin_done, analysis_result>>
    /\ UNCHANGED <<extractVars, bbvVars, selectVars>>

\* line 171 raises KeyError
ReadLoopRangeKeyError ==
    /\ apc = "loop_range"
    /\ "loop_range" \notin DOMAIN extracted_ranges
    /\ analysis_result' = Raise("KeyError")
    /\ apc' = "failed"
    /\ UNCHANGED <<setupVars, managerVars, analysis_region_id,
                   analysis_output, workbegin_done>>
    /\ UNCHANGED <<extractVars, bbvVars, selectVars>>

\* lines 171-173
ReadLoopRange ==
    /\ apc = "loop_range"
    /\ "loop_range" \in DOMAIN extracted_ranges
    /\ loop_range' = AddrRange(HexToInt(extracted_ranges["loop_range"][1]),
                               HexToInt(extracted_ranges["loop_range"][2]))
    /\ apc' = "excluded"
    /\ UNCHANGED <<extracted_ranges, excluded_ranges, start_tracking,
                   managerVars, analysis_region_id, analysis_output,
                   workbegin_done, analysis_result>>
    /\ UNCHANGED <<extractVars, bbvVars, selectVars>>

\* line 175 raises KeyError
ReadExcludedKeyError ==
    /\ apc = "excluded"
    /\ "excluded" \notin DOMAIN extracted_ranges
    /\ analysis_result' = Raise("KeyError")
    /\ apc' = "failed"
    /\ UNCHANGED <<setupVars, managerVars, analysis_region_id,
                   analysis_output, workbegin_done>>
    /\ UNCHANGED <<extractVars, bbvVars, selectVars>>

\* lines 175-201: the excluded ranges, the manager, one tracker per core
ReadExcluded ==
    /\ apc = "excluded"
    /\ "excluded" \in DOMAIN extracted_ranges
    /\ excluded_ranges' = ExcludedRanges(extracted_ranges["excluded"])
    /\ if_listening' = [c \in Cores |-> start_tracking]
    /\ local_bbv' = [c \in Cores |-> EmptyDict]
    /\ analysis_region_id' = 0
    /\ apc' = "run"
    /\ UNCHANGED <<extracted_ranges, loop_range, start_tracking, global_bbv,
                   global_inst_counter, manager_bb_inst_map,
                   backward_branch_counter, most_recent_branch,
                   analysis_output, workbegin_done, analysis_result>>
    /\ UNCHANGED <<extractVars, bbvVars, selectVars>>

NextSetup ==
    \/ RangesFileMissing \/ LoadRanges
    \/ ReadLoopRangeKeyError \/ ReadLoopRange
    \/ ReadExcludedKeyError \/ ReadExcluded

\* the extractor, then the setup of the analysis on the file it wrote
SpecPipeline == InitExtract /\ [][NextExtract \/ NextSetup]_vars

----------------------------------------------------------------------------
(* looppoint_analysis.py: the simulation and the exit event handlers.      *)

\* The state before simulator.run(): the setup has read an extraction
\* result document with both entries, and the output document is {}.
InitAnalysis ==
    /\ IdleExtract /\ IdleBBV /\ IdleSelect
    /\ extracted_ranges =
          [key \in {"loop_range", "excluded"} |->
              IF key = "loop_range" THEN HexPair(<<0, 1>>) ELSE EmptyDict]
    /\ loop_range = AddrRange(0, 1)
    /\ excluded_ranges = <<>>
    /\ start_tracking \in BOOLEAN
    /\ ManagerReady(start_tracking)
    /\ analysis_region_id = 0
    /\ analysis_output = JsonFile(json_dump(<<>>))
    /\ workbegin_done = FALSE
    /\ analysis_result = NoOutcome
    /\ apc = "run"

Count(bbv, addr) == IF addr \in DOMAIN bbv THEN bbv[addr] ELSE 0

RECURSIVE Total(_)
Total(bbv) ==
    IF DOMAIN bbv = {} THEN 0
    ELSE LET a == CHOOSE x \in DOMAIN bbv : TRUE
         IN  bbv[a] + Total([x \in (DOMAIN bbv) \ {a} |-> bbv[x]])

\* The simulated workload executes the basic block at addr on core c whose
\* tracker is listening: the tracker and the manager count it.
ExecuteBlock(c, addr) ==
    /\ apc = "run"
    /\ if_listening[c]
    /\ Total(global_bbv) < MaxBlocks
    /\ local_bbv' = [local_bbv EXCEPT
                        ![c] = SetKey(@, addr, Count(@, addr) + 1)]
    /\ global_bbv' = SetKey(global_bbv, addr, Count(global_bbv, addr) + 1)
    /\ global_inst_counter' = global_inst_counter + InstCount[addr]
    /\ manager_bb_inst_map' = SetKey(manager_bb_inst_map, addr, InstCount[addr])
    /\ UNCHANGED <<setupVars, if_listening, backward_branch_counter,
                   most_recent_branch, analysis_region_id, analysis_output,
                   workbegin_done, analysis_result, apc>>
    /\ UNCHANGED <<extractVars, bbvVars, selectVars>>

\* The simulated workload takes the backward branch at branch_pc on core c
\* whose tracker is listening.
BackwardBranch(c, branch_pc) ==
    /\ apc = "run"
    /\ if_listening[c]
    /\ Total(backward_branch_counter) < MaxBranches
    /\ LET count == Count(backward_branch_counter, branch_pc) + 1
       IN  /\ backward_branch_counter' =
                  SetKey(backward_branch_counter, branch_pc, count)
           /\ most_recent_branch' = [pc |-> branch_pc, count |-> count]
    /\ UNCHANGED <<setupVars, if_listening, local_bbv, global_bbv,
                   global_inst_counter, manager_bb_inst_map,
                   analysis_region_id, analysis_output, workbegin_done,
                   analysis_result, apc>>
    /\ UNCHANGED <<extractVars, bbvVars, selectVars>>

\* the region_info of lines 220-228
RegionInfo(dump_bb_inst_map) ==
    IF dump_bb_inst_map
    THEN [global_bbv |-> to_hex_map(global_bbv),
          global_length |-> global_inst_counter,
          global_loop_counter |-> to_hex_map(backward_branch_counter),
          most_recent_loop |-> hex(most_recent_branch.pc),
          most_recent_loop_count |-> most_recent_branch.count,
          bb_inst_map |-> to_hex_map(manager_bb_inst_map)]
    ELSE [global_bbv |-> to_hex_map(global_bbv),
          global_length |-> global_inst_counter,
          global_loop_counter |-> to_hex_map(backward_branch_counter),
          most_recent_loop |-> hex(most_recent_branch.pc),
          most_recent_loop_count |-> most_recent_branch.count]

\* Mutant of get_data: the global BBV and the instruction counter are not
\* cleared.
get_data_no_clear(dump_bb_inst_map) ==
    /\ local_bbv' = [c \in Cores |-> EmptyDict]
    /\ LET data == DictSetItem(json_load(analysis_output.json),
                               IntKey(analysis_region_id),
                               RegionInfo(dump_bb_inst_map))
       IN  analysis_output' = JsonFile(json_dump(data))
    /\ analysis_region_id' = analysis_region_id + 1
    /\ UNCHANGED <<global_bbv, global_inst_counter, manager_bb_inst_map,
                   backward_branch_counter, most_recent_branch>>

\* get_data (lines 209-241)
get_data(dump_bb_inst_map) ==
    /\ local_bbv' = [c \in Cores |-> EmptyDict]
    /\ global_bbv' = EmptyDict
    /\ global_inst_counter' = 0
    /\ LET data == DictSetItem(json_load(analysis_output.json),
                               IntKey(analysis_region_id),
                               RegionInfo(dump_bb_inst_map))
       IN  analysis_output' = JsonFile(json_dump(data))
    /\ analysis_region_id' = analysis_region_id + 1
    /\ UNCHANGED <<manager_bb_inst_map, backward_branch_counter,
                   most_recent_branch>>

\* ExitEvent.SIMPOINT_BEGIN: one turn of the loop of simpoint_handler
simpoint_handler ==
    /\ apc = "run"
    /\ analysis_region_id < MaxSimpoints
    /\ get_data(FALSE)
    /\ UNCHANGED <<setupVars, if_listening, workbegin_done, analysis_result,
                   apc>>
    /\ UNCHANGED <<extractVars, bbvVars, selectVars>>

\* ExitEvent.WORKBEGIN: workbegin_handler, which yields once
workbegin_handler ==
    /\ apc = "run"
    /\ ~workbegin_done
    /\ if_listening' = [c \in Cores |-> TRUE]
    /\ workbegin_done' = TRUE
    /\ UNCHANGED <<setupVars, local_bbv, global_bbv, global_inst_counter,
                   manager_bb_inst_map, backward_branch_counter,
                   most_recent_branch, analysis_region_id, analysis_output,
                   analysis_result, apc>>
    /\ UNCHANGED <<extractVars, bbvVars, selectVars>>

\* ExitEvent.WORKEND: workend_handler yields True and the simulation ends
workend_handler ==
    /\ apc = "run"
    /\ if_listening' = [c \in Cores |-> FALSE]
    /\ get_data(TRUE)
    /\ apc' = "done"
    /\ UNCHANGED <<setupVars, workbegin_done, analysis_result>>
    /\ UNCHANGED <<extractVars, bbvVars, selectVars>>

NextAnalysis ==
    \/ \E c \in Cores, addr \in BlockPCs : ExecuteBlock(c, addr)
    \/ \E c \in Cores, branch_pc \in BranchPCs : BackwardBranch(c, branch_pc)
    \/ simpoint_handler
    \/ workbegin_handler
    \/ workend_handler

SpecAnalysis == InitAnalysis /\ [][NextAnalysis]_vars

Init == InitExtract \/ InitBBV \/ InitSelect \/ InitAnalysis
Next == NextExtract \/ NextBBV \/ NextSelect \/ NextSetup \/ NextAnalysis
Spec == Init /\ [][Next]_vars

----------------------------------------------------------------------------
(* Properties of find_representative_regions.                              *)

\* the regions (from 0) assigned to cluster i
Members(i) == {r \in 0..(Len(labels) - 1) : labels[r + 1] = i}

\* r is a member of cluster i nearest to its centroid, and the lowest such
NearestLowest(i, r) ==
    /\ r \in Members(i)
    /\ \A q \in Members(i) :
          LET dr == Distance2(sel_bbvs[r + 1], centers[i + 1])
              dq == Distance2(sel_bbvs[q + 1], centers[i + 1])
          IN  dr <= dq /\ (dq = dr => r <= q)

\* C9: a cluster without members gets no entry and raises no error; the
\* clusters with members get their entries.
C9_EmptyClusterSkipped ==
    spc = "done" =>
        /\ select_result.kind = "return"
        /\ \A i \in 0..(Len(centers) - 1) :
              i \in DOMAIN select_result.value <=> Members(i) # {}

\* C10: every cluster with members is mapped to a list of exactly one
\* region, a member nearest to the centroid and the lowest-indexed of those.
C10_NearestLowestChosen ==
    spc = "done" =>
        \A i \in 0..(Len(centers) - 1) :
            Members(i) # {} =>
                /\ select_result.kind = "return"
                /\ i \in DOMAIN select_result.value
                /\ Len(select_result.value[i]) = 1
                /\ NearestLowest(i, select_result.value[i][1])

\* What holds of the code: every entry made is the nearest, lowest-indexed
\* member of its cluster, and a call that returns has an entry for every
\* cluster (a call returns only when no cluster is empty).
EntriesAreNearestLowest ==
    /\ \A i \in DOMAIN representative_regions :
          /\ Len(representative_regions[i]) = 1
          /\ NearestLowest(i, representative_regions[i][1])
    /\ select_result.kind = "return" =>
          /\ DOMAIN select_result.value = 0..(Len(centers) - 1)
          /\ \A i \in 0..(Len(centers) - 1) : Members(i) # {}

----------------------------------------------------------------------------
(* Properties of looppoint_analysis.py.                                    *)

\* the members of the output document, as written in the file
Members11 == analysis_output.json

\* The output document holds exactly the keys "0".."n-1" for the n dumps
\* made, once each; no entry but the one of the WORKEND dump has
\* bb_inst_map; after WORKEND the lookup of format_bbvs, bb_inst_map under
\* str(len(output) - 1), finds it.
KeysAreRegionIds ==
    apc \in {"run", "done"} =>
        /\ Len(Members11) = analysis_region_id
        /\ \A i \in 1..Len(Members11) : Members11[i][1] = Str(i - 1)
        /\ \A i \in 1..Len(Members11) :
              "bb_inst_map" \in DOMAIN Members11[i][2] <=>
                  (apc = "done" /\ i = Len(Members11))
        /\ apc = "done" =>
              LET loaded == json_load(Members11)
                  key    == StrKey(Str(Len(loaded) - 1))
              IN  \E i \in 1..Len(loaded) :
                      /\ loaded[i][1] = key
                      /\ "bb_inst_map" \in DOMAIN loaded[i][2]

\* A dump keeps every entry already in the document, adds the one of the
\* region that ends under the next key, holding the global BBV and the
\* instruction counter as they stood, and leaves both cleared.
DumpAddsOneRegion ==
    analysis_output' # analysis_output =>
        /\ Len(analysis_output'.json) = Len(Members11) + 1
        /\ \A i \in 1..Len(Members11) : analysis_output'.json[i] = Members11[i]
        /\ analysis_region_id' = analysis_region_id + 1
        /\ LET new == analysis_output'.json[Len(Members11) + 1]
           IN  /\ new[1] = Str(analysis_region_id)
               /\ new[2].global_bbv = to_hex_map(global_bbv)
               /\ new[2].global_length = global_inst_counter
        /\ global_bbv' = EmptyDict
        /\ global_inst_counter' = 0

\* C11: after k SIMPOINT_BEGIN events and one WORKEND event the output
\* document holds exactly the keys "0".."k", none missing and none
\* overwritten; only the entry "k" has bb_inst_map, which the lookup of
\* format_bbvs under str(len(output) - 1) finds; the global BBV and the
\* instruction counter are cleared by every dump, so that an entry covers
\* its own region only.
C11_OneEntryPerRegion ==
    []KeysAreRegionIds /\ [][DumpAddsOneRegion]_vars

\* two SIMPOINT_BEGIN events, then WORKEND: region 0 executed the block at
\* 0x400 only, region 1 the block at 0x404 only, and the last entry has the
\* sizes of both
C11_Witness ==
    /\ apc = "done"
    /\ Len(Members11) = 3
    /\ DOMAIN Members11[1][2].global_bbv = {hex(1024)}
    /\ DOMAIN Members11[2][2].global_bbv = {hex(1028)}
    /\ Members11[2][2].global_length = 20
    /\ DOMAIN Members11[3][2].bb_inst_map = {hex(1024), hex(1028)}

\* C12: every extraction result document that main writes has a
\* "loop_range" entry and an "excluded" entry, and the setup of the
\* analysis, which reads both, does not fail on a written document.
C12_WrittenDocumentHasBothEntries ==
    output_file.exists =>
        /\ {"loop_range", "excluded"} \subseteq DOMAIN output_file.json
        /\ apc # "failed"

====
